---- MODULE Spec2Model ----
(***************************************************************************)
(* A model of buildli's indexing-and-retrieval core: the embedded vector   *)
(* store (src/src/vector/local_store.rs), the Indexer                      *)
(* (src/src/indexer/mod.rs), the watch subscription                        *)
(* (src/src/indexer/walker.rs) and the query engine (src/src/query/mod.rs).*)
(***************************************************************************)
EXTENDS Integers, Sequences, FiniteSets, TLC

VARIABLES
    documents,   \* PersistentLocalVectorStore.documents: Vec<StoredDocument>
    snapshot,    \* content of the file at store_path (the last completed write)
    last,        \* the last store call, its arguments and what it returned
    purged,      \* path strings deleted by delete_by_file and not upserted since
    pc,          \* position of Indexer::index_path
    watch,       \* the watch argument of the running index_path
    found,       \* what walk() returned to index_once
    files,       \* files discovered by walk() and not yet visited by index_once
    stats,       \* IndexStats of the running index_path invocation
    result,      \* what index_path returned: "none" | "Ok" | "Err"
    chan,        \* the mpsc channel of WatchEvents (events sent, not yet received)
    watcher,     \* the notify watcher made by watch(): "none" | "dropped" | "closed"
    fs_events,   \* create/modify/remove notifications under root since watch() returned
    steps,       \* steps the Indexer ran, in order, each with its outcome
    next_id,     \* number of ids create_document has generated
    response,    \* what QueryEngine::query returned
    calls,       \* the capability calls of the running query, in order
    lock,        \* the RwLock around documents: its writer and its readers
    tasks,       \* the store call each concurrent task is in, and where
    embedder,    \* the embedding provider handle_index gave the Indexer
    source,      \* the file handed to the chunker: its lines and captured nodes
    parsed,      \* what the chunker returned for source
    tree,        \* the root handed to FileWalker::walk and the files beneath it
    listing,     \* what walk returned for tree
    stream,      \* the response of a streaming completion, as network chunks
    answer,      \* what stream_completion returned for stream
    subject,     \* the string and max_len handed to truncate_string
    truncated    \* what truncate_string did with subject

storeVars == <<documents, snapshot, last, purged>>
indexVars == <<pc, watch, found, files, stats, result, chan, watcher, fs_events, steps,
               next_id>>
queryVars == <<response, calls>>
lockVars == <<lock, tasks>>
parseVars == <<source, parsed>>
walkVars == <<tree, listing>>
streamVars == <<stream, answer>>
truncVars == <<subject, truncated>>
utilVars == <<stream, answer, subject, truncated>>
vars == <<documents, snapshot, last, purged, pc, watch, found, files, stats, result, chan,
          watcher, fs_events, steps, next_id, response, calls, lock, tasks, embedder,
          source, parsed, tree, listing,
          stream, answer, subject, truncated>>

(***************************************************************************)
(* Bounds of the model.                                                    *)
(***************************************************************************)
MaxBatch == 2      \* longest batch handed to upsert_documents by a direct caller
MaxTopK == 3       \* largest top_k a search is called with

(***************************************************************************)
(* serde_json::Value, as far as the code looks into it: as_str() answers   *)
(* only for a string.  A HashMap<String, Value> is a function from the     *)
(* keys it holds; get() of a key it does not hold is None.                 *)
(***************************************************************************)
JStr(s) == [kind |-> "str", s |-> s]
JNum(n) == [kind |-> "num", n |-> n]

\* Option<T> as a set with at most one element.
MetaGet(m, k) == IF k \in DOMAIN m THEN {m[k]} ELSE {}
AsStr(opt) == {v.s : v \in {w \in opt : w.kind = "str"}}

(***************************************************************************)
(* Paths.  Path::display().to_string() is lossy: every byte sequence that  *)
(* is not UTF-8 becomes U+FFFD, so two paths can have one string form.     *)
(***************************************************************************)
Paths == {"a.rs", "b\\xFF.rs", "b\\xFE.rs"}
PathDisplay(p) == IF p = "a.rs" THEN "a.rs" ELSE "b\\uFFFD.rs"
PathStrings == {PathDisplay(p) : p \in Paths}

(***************************************************************************)
(* cosine_similarity (src/src/vector/mod.rs:258).  The model's vectors     *)
(* have small integer components, for which dot products and squared norms *)
(* are exact.  zip() stops at the shorter vector; each norm runs over the  *)
(* whole of its own vector.  The score is kept as                          *)
(* sign(dot) * 4 * dot^2 / (|a|^2 |b|^2), the image of dot / (|a| |b|)     *)
(* under the strictly increasing map x |-> 4 * sign(x) * x^2, an integer   *)
(* for the vectors of the model: the order and the ties between scores are *)
(* those of the quotient.                                                  *)
(***************************************************************************)
\* The sum of a[i] * b[i] for i in lo..hi, halving the range so that vectors
\* of some hundred components can be summed.
RECURSIVE DotBetween(_, _, _, _)
DotBetween(a, b, lo, hi) ==
    IF lo > hi THEN 0
    ELSE IF lo = hi THEN a[lo] * b[lo]
    ELSE DotBetween(a, b, lo, (lo + hi) \div 2) + DotBetween(a, b, (lo + hi) \div 2 + 1, hi)

DotUpTo(a, b, n) == DotBetween(a, b, 1, n)

Min(x, y) == IF x <= y THEN x ELSE y

Dot(a, b) == DotUpTo(a, b, Min(Len(a), Len(b)))
NormSq(a) == DotUpTo(a, a, Len(a))

cosine_similarity(a, b) ==
    IF NormSq(a) = 0 \/ NormSq(b) = 0
    THEN 0
    ELSE LET d == Dot(a, b)
             q == (4 * d * d) \div (NormSq(a) * NormSq(b))
         IN  IF d < 0 THEN -q ELSE q

(***************************************************************************)
(* upsert_documents, lines 74-84: for each document of the batch in turn,  *)
(* drop every held document of that id (Vec::retain keeps the others in    *)
(* their order), then push the new one.                                    *)
(***************************************************************************)
UpsertOneDropsNothing(store, doc) == Append(store, doc)

UpsertOneMerges(store, doc) ==
    LET old == SelectSeq(store, LAMBDA d : d.id = doc.id)
        merged == IF old = <<>> THEN doc
                  ELSE [id |-> doc.id, embedding |-> doc.embedding,
                        metadata |-> [k \in DOMAIN old[1].metadata \cup DOMAIN doc.metadata |->
                                        IF k \in DOMAIN doc.metadata THEN doc.metadata[k]
                                        ELSE old[1].metadata[k]]]
    IN  Append(SelectSeq(store, LAMBDA d : d.id # doc.id), merged)

UpsertOne(store, doc) ==
    Append(SelectSeq(store, LAMBDA d : d.id # doc.id),
           [id |-> doc.id, embedding |-> doc.embedding, metadata |-> doc.metadata])

RECURSIVE UpsertAll(_, _)
UpsertAll(store, batch) ==
    IF batch = <<>> THEN store
    ELSE UpsertAll(UpsertOne(store, Head(batch)), Tail(batch))

(***************************************************************************)
(* delete_by_file, lines 115-122: keep a document unless its metadata has  *)
(* a string under "file_path" equal to the string form of the path.        *)
(***************************************************************************)
KeepOnDeleteOnlyOtherPaths(doc, path_str) ==
    LET p == AsStr(MetaGet(doc.metadata, "file_path"))
    IN  p # {} /\ \A s \in p : s # path_str

KeepOnDelete(doc, path_str) ==
    LET p == AsStr(MetaGet(doc.metadata, "file_path"))
    IN  IF p = {} THEN TRUE ELSE \A s \in p : s # path_str

RECURSIVE DropFirstMatch(_, _)
DropFirstMatch(store, path_str) ==
    IF store = <<>> THEN <<>>
    ELSE IF ~KeepOnDelete(Head(store), path_str) THEN Tail(store)
    ELSE <<Head(store)>> \o DropFirstMatch(Tail(store), path_str)

DeleteFromStore(store, path_str) ==
    SelectSeq(store, LAMBDA d : KeepOnDelete(d, path_str))

(***************************************************************************)
(* search, lines 93-110: score every held document, sort by descending     *)
(* score (slice::sort_by is stable: equal scores keep the store's order),  *)
(* keep the first top_k, and return score and metadata.                    *)
(***************************************************************************)
Scored(store, query_vector) ==
    [i \in DOMAIN store |->
        [score |-> cosine_similarity(query_vector, store[i].embedding),
         metadata |-> store[i].metadata]]

\* Insert x after every element whose score is >= x's: a stable descending sort.
RECURSIVE InsertDesc(_, _)
InsertDesc(sorted, x) ==
    IF sorted = <<>> THEN <<x>>
    ELSE IF Head(sorted).score >= x.score
         THEN <<Head(sorted)>> \o InsertDesc(Tail(sorted), x)
         ELSE <<x>> \o sorted

RECURSIVE SortDescFrom(_, _)
SortDescFrom(sorted, rest) ==
    IF rest = <<>> THEN sorted
    ELSE SortDescFrom(InsertDesc(sorted, Head(rest)), Tail(rest))

SortByScoreDesc(s) == SortDescFrom(<<>>, s)

Take(s, n) == SubSeq(s, 1, Min(n, Len(s)))

SearchUnsorted(store, query_vector, top_k) ==
    Take(Scored(store, query_vector), top_k)

SearchStore(store, query_vector, top_k) ==
    Take(SortByScoreDesc(Scored(store, query_vector)), top_k)

(***************************************************************************)
(* save, lines 57-62: the whole table is serialized and written over the   *)
(* file.  load, lines 48-55, reads a file that exists.  The records keep   *)
(* id, embedding and metadata, in the table's order.                       *)
(***************************************************************************)
NoFile == [exists |-> FALSE]

\* serde_json::to_string_pretty of one StoredDocument: the id, the array of
\* the embedding's numbers and the object of the metadata's members (a
\* HashMap: the members come in no order of their own).
Serialize(doc) ==
    [id |-> doc.id,
     embedding |-> doc.embedding,
     metadata |-> {<<k, doc.metadata[k]>> : k \in DOMAIN doc.metadata}]

\* serde_json::from_str of one StoredDocument.
Deserialize(rec) ==
    [id |-> rec.id,
     embedding |-> rec.embedding,
     metadata |-> [k \in {m[1] : m \in rec.metadata} |->
                     (CHOOSE m \in rec.metadata : m[1] = k)[2]]]

WrittenSkipsMetadata(store) ==
    [exists |-> TRUE,
     records |-> [i \in DOMAIN store |-> [Serialize(store[i]) EXCEPT !.metadata = {}]]]

Written(store) == [exists |-> TRUE, records |-> [i \in DOMAIN store |-> Serialize(store[i])]]

\* load, lines 48-55: the table of a store constructed on the file.
Load(file) ==
    IF file.exists THEN [i \in DOMAIN file.records |-> Deserialize(file.records[i])]
    ELSE <<>>

SaveResultWritesAnyway(store, file, save_ok) == Written(store)

SaveResult(store, file, save_ok) == IF save_ok THEN Written(store) ELSE file

(***************************************************************************)
(* The documents direct callers of the store hand to upsert_documents.     *)
(* Two documents per id that differ in embedding and in the keys of the    *)
(* metadata; "file_path" is a string, a number or missing.                 *)
(***************************************************************************)
Doc(id, embedding, metadata) ==
    [id |-> id, embedding |-> embedding, metadata |-> metadata]

DocUniverse ==
    { Doc(1, <<1, 0>>, [file_path |-> JStr("a.rs"), content |-> JStr("fn a")]),
      Doc(1, <<1, 1>>, <<>>),
      Doc(2, <<1, 1>>, [file_path |-> JStr("b\\uFFFD.rs"), content |-> JStr("fn b")]),
      Doc(2, <<0, 0>>, [file_path |-> JStr("a.rs")]),
      Doc(3, <<1, 0>>, [file_path |-> JNum(7), content |-> JStr("fn c")]),
      Doc(3, <<-1, 1>>, [file_path |-> JStr("a.rs"), content |-> JStr("fn a2")]) }

SmallUniverse ==
    { Doc(1, <<1, 0>>, [file_path |-> JStr("a.rs"), content |-> JStr("fn a")]),
      Doc(2, <<1, 1>>, [file_path |-> JStr("b\\uFFFD.rs"), content |-> JStr("fn b")]),
      Doc(2, <<0, 0>>, [file_path |-> JStr("a.rs")]) }

QueryVectors == { <<1, 0>>, <<0, 1>>, <<1, 1>> }

RECURSIVE SeqsUpTo(_, _)
SeqsUpTo(S, n) ==
    IF n = 0 THEN {<<>>}
    ELSE LET shorter == SeqsUpTo(S, n - 1)
         IN  shorter \cup {Append(s, x) : s \in shorter, x \in S}

Batches == SeqsUpTo(DocUniverse, MaxBatch)

\* The strings under "file_path" in a sequence of documents.
FilePathStrings(docs) ==
    UNION {AsStr(MetaGet(docs[i].metadata, "file_path")) : i \in DOMAIN docs}

(***************************************************************************)
(* The store's three calls.                                                *)
(***************************************************************************)
UpsertEffect(batch, save_ok) ==
    /\ documents' = UpsertAll(documents, batch)
    /\ snapshot' = SaveResult(documents', snapshot, save_ok)
    /\ last' = [op |-> "upsert_documents", batch |-> batch, ok |-> save_ok,
                replaced |-> {batch[i].id : i \in DOMAIN batch}
                             \cap {documents[i].id : i \in DOMAIN documents}]
    /\ purged' = purged \ FilePathStrings(batch)

UpsertDocuments(batch, save_ok) ==
    /\ UpsertEffect(batch, save_ok)
    /\ UNCHANGED <<indexVars, queryVars, lockVars, embedder, parseVars, walkVars, utilVars>>

Search(query_vector, top_k) ==
    /\ last' = [op |-> "search", query_vector |-> query_vector, top_k |-> top_k,
                results |-> SearchStore(documents, query_vector, top_k),
                removed_before |-> IF last.op = "delete_by_file" THEN last.removed
                                   ELSE IF last.op = "search" THEN last.removed_before
                                   ELSE 0,
                upserted |-> IF last.op = "upsert_documents" /\ last.batch # <<>>
                             THEN {last.batch[Len(last.batch)]} ELSE {}]
    /\ UNCHANGED <<documents, snapshot, purged, indexVars, queryVars, lockVars, embedder, parseVars, walkVars, utilVars>>

\* (upserted above: the last document of the batch, when the call before the
\* search was upsert_documents.)
\* nth: 2 when the call before this one was delete_by_file of the same path;
\* prev_ok and removed then tell of that call.
DeleteEffect(file_path, save_ok) ==
    LET path_str == PathDisplay(file_path)
        again == last.op = "delete_by_file" /\ last.path = file_path
    IN  /\ documents' = DeleteFromStore(documents, path_str)
        /\ snapshot' = SaveResult(documents', snapshot, save_ok)
        /\ last' = [op |-> "delete_by_file", path |-> file_path, ok |-> save_ok,
                    nth |-> IF again THEN 2 ELSE 1,
                    prev_ok |-> IF again THEN last.ok ELSE TRUE,
                    removed |-> IF again THEN last.removed
                                ELSE Len(documents) - Len(documents')]
        /\ purged' = purged \cup {path_str}

DeleteByFile(file_path, save_ok) ==
    /\ DeleteEffect(file_path, save_ok)
    /\ UNCHANGED <<indexVars, queryVars, lockVars, embedder, parseVars, walkVars, utilVars>>

(***************************************************************************)
(* The initial state: a store constructed where no snapshot file exists,   *)
(* an Indexer and a QueryEngine that have not been called.                 *)
(***************************************************************************)
NoStats == [total_files |-> 0, indexed_files |-> 0, failed_files |-> 0, total_chunks |-> 0]
NoResponse == [status |-> "none"]

StoreInit ==
    /\ documents = <<>>
    /\ snapshot = NoFile
    /\ last = [op |-> "new"]
    /\ purged = {}

IndexIdle ==
    /\ pc = "idle"
    /\ watch = FALSE
    /\ found = <<>>
    /\ files = <<>>
    /\ stats = NoStats
    /\ result = "none"
    /\ chan = <<>>
    /\ watcher = "none"
    /\ fs_events = <<>>
    /\ steps = <<>>
    /\ next_id = 0

QueryIdle ==
    /\ response = NoResponse
    /\ calls = <<>>

(***************************************************************************)
(* The chunker (src/src/indexer/parser.rs).  A file is its number of lines *)
(* (content.lines().count()), whether a tree-sitter parser is registered   *)
(* for its language, and the nodes the language's query captures, in the   *)
(* order the cursor yields them.  A node is the row (from 1) and column    *)
(* (from 0) of its first byte and the number of lines of its text.         *)
(***************************************************************************)
MaxLines == 130      \* longest file given to the fallback chunker
MaxNodeLines == 3    \* longest file given to the structural chunker
MaxNodes == 2        \* most nodes captured in one file

chunk_size == 50
overlap == 10

Window(line_start, line_end, chunk_type) ==
    [line_start |-> line_start, line_end |-> line_end, chunk_type |-> chunk_type]

\* fallback_parse, lines 215-240: the loop from i, over a file of n lines.
RECURSIVE FallbackFrom(_, _)
FallbackFrom(i, n) ==
    IF i < n
    THEN <<Window(i + 1, Min(i + chunk_size, n), "Other")>>
         \o FallbackFrom(i + chunk_size - overlap, n)
    ELSE <<>>

FallbackParse(n) == FallbackFrom(0, n)

\* content[..start_byte].lines().count(), line 126: the complete lines
\* before the node, and one more for the line the node starts in when
\* something of that line precedes it.
LinesBefore(node) == IF node.col = 0 THEN node.row - 1 ELSE node.row

\* parse_with_tree_sitter, lines 120-139: the chunk of one captured node.
NodeChunk(node) ==
    LET start_line == LinesBefore(node)
        end_line == start_line + node.text_lines
    IN  Window(start_line + 1, end_line, "Function")

\* parse_with_tree_sitter, lines 102-147.
ParseWithTreeSitter(src) ==
    LET chunks == [i \in DOMAIN src.nodes |-> NodeChunk(src.nodes[i])]
    IN  IF chunks = <<>> THEN FallbackParse(src.lines) ELSE chunks

\* parse_file, lines 69-82; read_ok: fs::read_to_string returned Ok.
ParseFile(read_ok) ==
    /\ ~parsed.done
    /\ parsed' = IF ~read_ok THEN [done |-> TRUE, ok |-> FALSE]
                 ELSE [done |-> TRUE, ok |-> TRUE,
                       chunks |-> IF source.structural THEN ParseWithTreeSitter(source)
                                  ELSE FallbackParse(source.lines)]
    /\ UNCHANGED <<storeVars, indexVars, queryVars, lockVars, embedder, source, walkVars, utilVars>>

NoSource == [lines |-> 0, structural |-> FALSE, nodes |-> <<>>]
NotParsed == [done |-> FALSE]

ParseIdle ==
    /\ source = NoSource
    /\ parsed = NotParsed

(***************************************************************************)
(* The file walker (src/src/indexer/walker.rs).  A path is the sequence of *)
(* its components and a component the sequence of its characters, so that *)
(* the text of a path can be searched as should_ignore searches it.        *)
(***************************************************************************)
\* FileWalker::new, lines 21-34.
ignore_patterns ==
    << <<".", "g", "i", "t">>,
       <<"n", "o", "d", "e", "_", "m", "o", "d", "u", "l", "e", "s">>,
       <<"t", "a", "r", "g", "e", "t">>,
       <<"d", "i", "s", "t">>,
       <<"b", "u", "i", "l", "d">>,
       <<"_", "_", "p", "y", "c", "a", "c", "h", "e", "_", "_">>,
       <<".", "p", "y", "t", "e", "s", "t", "_", "c", "a", "c", "h", "e">>,
       <<".", "m", "y", "p", "y", "_", "c", "a", "c", "h", "e">> >>

\* should_ignore, line 107.
binary_extensions ==
    { <<"e", "x", "e">>,
      <<"d", "l", "l">>,
      <<"s", "o">>,
      <<"d", "y", "l", "i", "b">>,
      <<"o">>,
      <<"a">> }

\* str::contains.
Contains(s, pattern) ==
    \E i \in 1..(Len(s) - Len(pattern) + 1) : SubSeq(s, i, i + Len(pattern) - 1) = pattern

\* Path::to_string_lossy: the components joined by the separator.
RECURSIVE PathText(_)
PathText(path) ==
    IF Len(path) = 0 THEN <<>>
    ELSE IF Len(path) = 1 THEN path[1]
    ELSE path[1] \o <<"/">> \o PathText(Tail(path))

\* Path::extension: what follows the last dot of the file name, when the
\* name has a dot that is not its first character.
Extension(path) ==
    LET name == path[Len(path)]
        dots == {i \in 2..Len(name) : name[i] = "."}
    IN  IF dots = {} THEN {}
        ELSE {SubSeq(name, (CHOOSE i \in dots : \A j \in dots : j <= i) + 1, Len(name))}

\* should_ignore, lines 98-113.
ShouldIgnore(path) ==
    \/ \E i \in DOMAIN ignore_patterns : Contains(PathText(path), ignore_patterns[i])
    \/ Extension(path) \cap binary_extensions # {}

\* walk, lines 41-61: the entries the WalkBuilder yields are those the
\* ignore rules of the tree (.gitignore, global and exclude files) do not
\* match; hidden entries are yielded.  walk_ok: no entry is an Err.  The
\* order of the Vec is the builder's and is left out.
Walk(walk_ok) ==
    /\ ~listing.done
    /\ listing' =
         IF ~walk_ok THEN [done |-> TRUE, ok |-> FALSE]
         ELSE [done |-> TRUE, ok |-> TRUE,
               files |-> {tree.root \o f.rel :
                            f \in {g \in tree.files :
                                     ~g.git_ignored /\ ~ShouldIgnore(tree.root \o g.rel)}}]
    /\ UNCHANGED <<storeVars, indexVars, queryVars, lockVars, embedder, parseVars, tree,
                   utilVars>>

NoTree == [root |-> <<>>, files |-> {}]
NotWalked == [done |-> FALSE]

WalkIdle ==
    /\ tree = NoTree
    /\ listing = NotWalked

(***************************************************************************)
(* truncate_string (src/src/utils/mod.rs:53-59).  A string is the sequence *)
(* of its characters; "U+00E9" stands for a character of two bytes in      *)
(* UTF-8, every other one here has one byte.                               *)
(***************************************************************************)
MaxChars == 4        \* longest string handed to truncate_string
MaxTruncLen == 6     \* largest max_len handed to truncate_string

ByteLen(c) == IF c = "U+00E9" THEN 2 ELSE 1

\* str::len: the length in bytes.
RECURSIVE StrLen(_)
StrLen(s) == IF s = <<>> THEN 0 ELSE ByteLen(Head(s)) + StrLen(Tail(s))

\* &s[..end]: the characters of the first end bytes; no value (a panic) when
\* end is beyond the string or inside a character.
RECURSIVE SliceTo(_, _)
SliceTo(s, end) ==
    IF end = 0 THEN {<<>>}
    ELSE IF s = <<>> THEN {}
    ELSE IF ByteLen(Head(s)) > end THEN {}
    ELSE {<<Head(s)>> \o rest : rest \in SliceTo(Tail(s), end - ByteLen(Head(s)))}

\* max_len - 3 on usize, line 57.  Below zero the subtraction panics in a
\* build with overflow checks, and wraps to a value near 2^64 without them,
\* which is beyond the end of any string: the slice panics.
TruncateString(s, max_len, overflow_checks) ==
    IF StrLen(s) <= max_len THEN [done |-> TRUE, panic |-> FALSE, out |-> s]
    ELSE IF max_len < 3
    THEN [done |-> TRUE, panic |-> TRUE,
          at |-> IF overflow_checks THEN "subtract" ELSE "slice"]
    ELSE LET cut == SliceTo(s, max_len - 3)
         IN  IF cut = {} THEN [done |-> TRUE, panic |-> TRUE, at |-> "slice"]
             ELSE [done |-> TRUE, panic |-> FALSE,
                   out |-> (CHOOSE c \in cut : TRUE) \o <<".", ".", ".">>]

TruncateStringCall(overflow_checks) ==
    /\ ~truncated.done
    /\ truncated' = TruncateString(subject.s, subject.max_len, overflow_checks)
    /\ UNCHANGED <<storeVars, indexVars, queryVars, lockVars, embedder, parseVars, walkVars,
                   streamVars, subject>>

NoSubject == [s |-> <<>>, max_len |-> 0]
NotTruncated == [done |-> FALSE]

TruncIdle ==
    /\ subject = NoSubject
    /\ truncated = NotTruncated

(***************************************************************************)
(* The body of a streaming completion (src/src/query/mod.rs:225-256).  The *)
(* server sends lines, each "data: " and a JSON object with a delta        *)
(* content, or "data: [DONE]".  The bytes arrive in network chunks: a      *)
(* chunk is a sequence of pieces, a piece being a whole line, or the head  *)
(* or the tail of a line that a chunk boundary cuts.                       *)
(***************************************************************************)
Piece(line, part) == [line |-> line, part |-> part]

\* lines 234-249, one line of a chunk: what it appends to full_response.
\* Only a whole data line with a delta content parses; the head of a cut
\* line is no JSON object and its tail does not start with "data: ".
ContentOf(piece) ==
    IF piece.part = "whole" /\ piece.line # "[DONE]" THEN <<piece.line>> ELSE <<>>

\* lines 233-250, the for loop over text.lines() of one chunk: break at a
\* whole "data: [DONE]" line.
RECURSIVE ChunkContent(_)
ChunkContent(chunk) ==
    IF chunk = <<>> THEN <<>>
    ELSE IF Head(chunk) = Piece("[DONE]", "whole") THEN <<>>
    ELSE ContentOf(Head(chunk)) \o ChunkContent(Tail(chunk))

\* lines 230-251, the while loop over the chunks of the stream.
RECURSIVE FullResponse(_)
FullResponse(chunks) ==
    IF chunks = <<>> THEN <<>>
    ELSE ChunkContent(Head(chunks)) \o FullResponse(Tail(chunks))

\* stream_completion, lines 225-256, when the transport and stdout do not fail.
StreamCompletionBody ==
    /\ ~answer.done
    /\ answer' = [done |-> TRUE, full_response |-> FullResponse(stream.chunks)]
    /\ UNCHANGED <<storeVars, indexVars, queryVars, lockVars, embedder, parseVars, walkVars,
                   stream, truncVars>>

NoStream == [lines |-> <<>>, chunks |-> <<>>]
NoAnswer == [done |-> FALSE]

StreamIdle ==
    /\ stream = NoStream
    /\ answer = NoAnswer

\* handle_index, lines 75-81: the provider the configuration names.  The
\* model's other specifications run the Indexer with the local provider.
LocalEmbedder == [provider |-> "local"]

EmbedderIdle == embedder = LocalEmbedder

\* No task is inside a store call, and nobody holds the lock.
Tasks == {"t1", "t2", "t3"}

NoCall == [op |-> "none", pc |-> "idle"]

LockIdle ==
    /\ lock = [writer |-> "none", readers |-> {}]
    /\ tasks = [t \in Tasks |-> NoCall]

Init ==
    /\ StoreInit /\ IndexIdle /\ QueryIdle /\ LockIdle
    /\ EmbedderIdle /\ ParseIdle /\ WalkIdle
    /\ StreamIdle /\ TruncIdle

(***************************************************************************)
(* Spec: the store under direct callers, every snapshot write succeeding.  *)
(***************************************************************************)
Next ==
    \/ \E batch \in Batches : UpsertDocuments(batch, TRUE)
    \/ \E q \in QueryVectors, k \in 0..MaxTopK : Search(q, k)
    \/ \E p \in Paths : DeleteByFile(p, TRUE)

Spec == Init /\ [][Next]_vars

(***************************************************************************)
(* SpecIo: the store where a snapshot write may fail (save returns Err and *)
(* the file keeps what the last completed write left).                     *)
(***************************************************************************)
NextIo ==
    \/ \E d \in SmallUniverse, ok \in BOOLEAN : UpsertDocuments(<<d>>, ok)
    \/ \E p \in Paths, ok \in BOOLEAN : DeleteByFile(p, ok)

SpecIo == Init /\ [][NextIo]_vars

(***************************************************************************)
(* The Indexer (src/src/indexer/mod.rs).                                   *)
(*                                                                         *)
(* The files of the tree and what the chunker (parse_file) makes of each:  *)
(* two chunks, one chunk, and an empty file that yields none.  A chunk's   *)
(* file_path is the string form of the path (parser.rs:131, 228).          *)
(***************************************************************************)
MaxFsEvents == 2   \* notifications under root while the watch loop runs

Chunk(path, content, line_start, line_end, chunk_type) ==
    [file_path |-> PathDisplay(path), content |-> content, line_start |-> line_start,
     line_end |-> line_end, chunk_type |-> chunk_type, language |-> "rs"]

Chunks(path) ==
    IF path = "a.rs"
    THEN << Chunk(path, "fn a() {}", 1, 3, "Function"),
            Chunk(path, "struct A;", 5, 5, "Class") >>
    ELSE IF path = "b\\xFF.rs"
    THEN << Chunk(path, "fn b() {}", 1, 1, "Function") >>
    ELSE << >>

\* EmbeddingProvider::embed_batch, when it succeeds: one vector per text.
\* EmbeddingOf gives the leading components of the vector of a text.
EmbeddingOf(text) ==
    IF text = "fn a() {}" THEN <<1, 0>>
    ELSE IF text = "struct A;" THEN <<1, 1>>
    ELSE <<0, 1>>

\* LocalEmbeddings::embed, line 100: vec![0.0; 384], of which only the first
\* components are given values.  OpenAIEmbeddings::embed_batch, lines 77-81:
\* the vectors of the response, as long as the configured model makes them.
local_dim == 384

EmbedderDim(emb) == IF emb.provider = "local" THEN local_dim ELSE emb.dim

Pad(v, n) == [i \in 1..n |-> IF i <= Len(v) THEN v[i] ELSE 0]

EmbedBatch(texts) ==
    [i \in DOMAIN texts |-> Pad(EmbeddingOf(texts[i]), EmbedderDim(embedder))]

\* create_document, lines 129-142: a fresh id (the n-th uuid generated), the
\* embedding, and six metadata keys taken from the chunk.
CreateDocument(chunk, embedding, id) ==
    [id |-> id, embedding |-> embedding,
     metadata |-> [file_path |-> JStr(chunk.file_path),
                   content |-> JStr(chunk.content),
                   line_start |-> JNum(chunk.line_start),
                   line_end |-> JNum(chunk.line_end),
                   chunk_type |-> JStr(chunk.chunk_type),
                   language |-> JStr(chunk.language)]]

\* chunks.into_iter().zip(embeddings).map(create_document): as many documents
\* as the shorter of the two.
ZipDocumentsCrossed(chunks, embeddings, first_id) ==
    [i \in 1..Min(Len(chunks), Len(embeddings)) |->
        CreateDocument(chunks[i],
                       embeddings[Min(Len(chunks), Len(embeddings)) + 1 - i],
                       first_id + i)]

ZipDocuments(chunks, embeddings, first_id) ==
    [i \in 1..Min(Len(chunks), Len(embeddings)) |->
        CreateDocument(chunks[i], embeddings[i], first_id + i)]

(***************************************************************************)
(* index_file, lines 79-108, on one path.  outcome names where the call    *)
(* ends: "parse_err" (the file cannot be read or parsed), "embed_err",     *)
(* "store_err" (upsert_documents returns Err: its save failed) or "ok".    *)
(* The result: whether it returned Err, the statistics after it, the batch *)
(* it handed to upsert_documents, if it got that far, and the calls it     *)
(* made: of embed_batch the texts of each, of upsert_documents how many    *)
(* (the store keeps the batch of its last call in last).                   *)
(***************************************************************************)
IndexOutcomes == {"parse_err", "embed_err", "store_err", "ok"}

OutcomesFor(path) ==
    IF Chunks(path) = <<>> THEN {"parse_err", "ok"} ELSE IndexOutcomes

IndexFile(path, outcome, st, first_id) ==
    LET chunks == Chunks(path)
        chunk_texts == [i \in DOMAIN chunks |-> chunks[i].content]
        counted == [st EXCEPT !.total_files = @ + 1]
        batch == ZipDocuments(chunks, EmbedBatch(chunk_texts), first_id)
    IN  IF outcome = "parse_err"
        THEN [err |-> TRUE, stats |-> st, upsert |-> FALSE, batch |-> <<>>,
              embed_batch |-> <<>>, upsert_documents |-> 0]
        ELSE IF chunks = <<>>
        THEN [err |-> FALSE, stats |-> counted, upsert |-> FALSE, batch |-> <<>>,
              embed_batch |-> <<>>, upsert_documents |-> 0]
        ELSE IF outcome = "embed_err"
        THEN [err |-> TRUE, stats |-> counted, upsert |-> FALSE, batch |-> <<>>,
              embed_batch |-> <<chunk_texts>>, upsert_documents |-> 0]
        ELSE IF outcome = "store_err"
        THEN [err |-> TRUE, stats |-> counted, upsert |-> TRUE, batch |-> batch,
              embed_batch |-> <<chunk_texts>>, upsert_documents |-> 1]
        ELSE [err |-> FALSE,
              stats |-> [counted EXCEPT !.indexed_files = @ + 1,
                                        !.total_chunks = @ + Len(chunk_texts)],
              upsert |-> TRUE, batch |-> batch,
              embed_batch |-> <<chunk_texts>>, upsert_documents |-> 1]

\* What a call of index_file does to the store and to the id generator.
IndexFileOnStore(r) ==
    IF r.upsert
    THEN /\ UpsertEffect(r.batch, ~r.err)
         /\ next_id' = next_id + Len(r.batch)
    ELSE UNCHANGED <<storeVars, next_id>>

\* index_once, lines 48-51: an Err of index_file is counted and goes no further.
CountFailureNever(st, err) == st

CountFailure(st, err) ==
    IF err THEN [st EXCEPT !.failed_files = @ + 1] ELSE st

Step(src, op, path, outcome, err) ==
    [src |-> src, op |-> op, path |-> path, outcome |-> outcome, err |-> err]

\* A call of index_file, with the calls it made.
IndexStep(src, path, outcome, r) ==
    [src |-> src, op |-> "index_file", path |-> path, outcome |-> outcome, err |-> r.err,
     embed_batch |-> r.embed_batch, upsert_documents |-> r.upsert_documents]

(***************************************************************************)
(* index_path, lines 29-41, and the start of index_once, line 44: the      *)
(* statistics start at zero and walk() runs; its Err is index_path's Err.  *)
(***************************************************************************)
IndexPath(w, walk_ok, walked) ==
    /\ pc = "idle"
    /\ watch' = w
    /\ stats' = NoStats
    /\ IF walk_ok
       THEN /\ found' = walked
            /\ files' = walked
            /\ pc' = "index_once"
            /\ result' = "none"
            /\ steps' = Append(steps, Step("walk", "walk", "", "ok", FALSE))
       ELSE /\ found' = <<>>
            /\ files' = <<>>
            /\ pc' = "done"
            /\ result' = "Err"
            /\ steps' = Append(steps, Step("walk", "walk", "", "err", TRUE))
    /\ UNCHANGED <<storeVars, chan, watcher, fs_events, next_id, queryVars, lockVars, embedder, parseVars, walkVars, utilVars>>

\* index_once, lines 46-51: the next discovered file.
IndexOnceStep(outcome) ==
    /\ pc = "index_once"
    /\ files # <<>>
    /\ outcome \in OutcomesFor(Head(files))
    /\ LET r == IndexFile(Head(files), outcome, stats, next_id)
       IN  /\ IndexFileOnStore(r)
           /\ stats' = CountFailure(r.stats, r.err)
           /\ steps' = Append(steps, IndexStep("pass", Head(files), outcome, r))
    /\ files' = Tail(files)
    /\ UNCHANGED <<pc, watch, found, result, chan, watcher, fs_events, queryVars, lockVars, embedder, parseVars, walkVars, utilVars>>

\* index_once returns Ok(()), line 53, and without watch index_path returns Ok(stats).
IndexOnceDone ==
    /\ pc = "index_once"
    /\ files = <<>>
    /\ ~watch
    /\ pc' = "done"
    /\ result' = "Ok"
    /\ UNCHANGED <<storeVars, watch, found, files, stats, chan, watcher, fs_events, steps,
                   next_id, queryVars, lockVars, embedder, parseVars, walkVars, utilVars>>

(***************************************************************************)
(* FileWalker::watch (src/src/indexer/walker.rs:63-96): a channel, a       *)
(* watcher whose callback owns the Sender, the watch on root, a thread     *)
(* that only sleeps and logs, and the Receiver is returned.  The watcher   *)
(* is a local of watch(): it is dropped when watch() returns.  Dropping it *)
(* tells the backend to stop; when the backend has stopped, the callback   *)
(* and its Sender are gone and the channel is closed.  Until then a        *)
(* notification still reaches the callback.                                *)
(***************************************************************************)
WatcherAfterReturn == "dropped"

FileWalkerWatch(setup_ok) ==
    /\ pc = "index_once"
    /\ files = <<>>
    /\ watch
    /\ IF setup_ok
       THEN /\ watcher' = WatcherAfterReturn
            /\ pc' = "loop"
            /\ result' = "none"
            /\ steps' = Append(steps, Step("watch", "watch", "", "ok", FALSE))
       ELSE /\ watcher' = "none"
            /\ pc' = "done"
            /\ result' = "Err"
            /\ steps' = Append(steps, Step("watch", "watch", "", "err", TRUE))
    /\ UNCHANGED <<storeVars, watch, found, files, stats, chan, fs_events, next_id,
                   queryVars, lockVars, embedder, parseVars, walkVars, utilVars>>

\* The backend of a dropped watcher stops.
WatcherShutdown ==
    /\ watcher = "dropped"
    /\ watcher' = "closed"
    /\ UNCHANGED <<storeVars, pc, watch, found, files, stats, result, chan, fs_events,
                   steps, next_id, queryVars, lockVars, embedder, parseVars, walkVars, utilVars>>

\* The callback, lines 65-84: Create, Modify and Remove become WatchEvents of
\* the first path; any other kind is not forwarded.
WatchEventsOf(kind, path) ==
    IF kind = "Create" THEN {[kind |-> "Created", path |-> path]}
    ELSE IF kind = "Modify" THEN {[kind |-> "Modified", path |-> path]}
    ELSE IF kind = "Remove" THEN {[kind |-> "Deleted", path |-> path]}
    ELSE {}

NotifyKinds == {"Create", "Modify", "Remove", "Access"}
EventPaths == {"a.rs", "b\\xFF.rs"}

\* A filesystem notification under root after watch() has returned.  It is
\* delivered (sent on the channel) while the backend runs.
FsNotify(kind, path) ==
    /\ pc = "loop"
    /\ Len(fs_events) < MaxFsEvents
    /\ LET running == watcher = "dropped"
           evs == WatchEventsOf(kind, path)
       IN  /\ fs_events' = IF evs = {} THEN fs_events
                           ELSE Append(fs_events, [kind |-> kind, path |-> path,
                                                   delivered |-> running])
           /\ chan' = IF running /\ evs # {}
                      THEN Append(chan, CHOOSE e \in evs : TRUE)
                      ELSE chan
    /\ UNCHANGED <<storeVars, pc, watch, found, files, stats, result, watcher, steps,
                   next_id, queryVars, lockVars, embedder, parseVars, walkVars, utilVars>>

(***************************************************************************)
(* index_with_watch, lines 61-74: recv() takes the oldest event of the     *)
(* channel; Created and Modified run index_file, Deleted runs              *)
(* delete_file_chunks; an Err of either is logged and the loop goes on.    *)
(***************************************************************************)
RecvNewest(c) == c[Len(c)]

RecvFrom(c) == Head(c)

HandlerAlwaysIndexes(event) == "index_file"

HandlerOf(event) ==
    IF event.kind \in {"Created", "Modified"} THEN "index_file" ELSE "delete_by_file"

PcAfterEventPropagates(err) == IF err THEN "done" ELSE "loop"

PcAfterEvent(err) == "loop"

ResultAfterEvent(err) == IF PcAfterEvent(err) = "done" THEN "Err" ELSE "none"

RecvEvent(outcome) ==
    /\ pc = "loop"
    /\ chan # <<>>
    /\ LET event == RecvFrom(chan)
       IN  IF HandlerOf(event) = "index_file"
           THEN /\ outcome \in OutcomesFor(event.path)
                /\ LET r == IndexFile(event.path, outcome, stats, next_id)
                   IN  /\ IndexFileOnStore(r)
                       /\ stats' = r.stats
                       /\ steps' = Append(steps, IndexStep("event", event.path, outcome, r))
                       /\ pc' = PcAfterEvent(r.err)
                       /\ result' = ResultAfterEvent(r.err)
           ELSE /\ outcome \in {"store_err", "ok"}
                /\ DeleteEffect(event.path, outcome = "ok")
                /\ steps' = Append(steps, Step("event", "delete_by_file", event.path,
                                               outcome, outcome # "ok"))
                /\ pc' = PcAfterEvent(outcome # "ok")
                /\ result' = ResultAfterEvent(outcome # "ok")
                /\ UNCHANGED <<stats, next_id>>
    /\ chan' = Tail(chan)
    /\ UNCHANGED <<watch, found, files, watcher, fs_events, queryVars, lockVars, embedder, parseVars, walkVars, utilVars>>

\* recv() returns Err once the channel is empty and its Sender is gone: the
\* loop ends, index_with_watch returns Ok(()), index_path returns Ok(stats).
RecvClosed ==
    /\ pc = "loop"
    /\ chan = <<>>
    /\ watcher = "closed"
    /\ pc' = "done"
    /\ result' = "Ok"
    /\ steps' = Append(steps, Step("closed", "recv", "", "err", FALSE))
    /\ UNCHANGED <<storeVars, watch, found, files, stats, chan, watcher, fs_events,
                   next_id, queryVars, lockVars, embedder, parseVars, walkVars, utilVars>>

(***************************************************************************)
(* SpecIndex: one index_path(root, watch = false).  walk() returns the     *)
(* files that exist in an order of its own.                                *)
(***************************************************************************)
WalkResults ==
    { <<>>, <<"a.rs">>, <<"b\\xFE.rs">>, <<"a.rs", "b\\xFF.rs">>, <<"b\\xFF.rs", "a.rs">>,
      <<"b\\xFE.rs", "a.rs">>, <<"a.rs", "b\\xFE.rs", "b\\xFF.rs">>,
      <<"b\\xFF.rs", "b\\xFE.rs", "a.rs">> }

NextIndex ==
    \/ \E walk_ok \in BOOLEAN, walked \in WalkResults : IndexPath(FALSE, walk_ok, walked)
    \/ \E outcome \in IndexOutcomes : IndexOnceStep(outcome)
    \/ IndexOnceDone

SpecIndex == Init /\ [][NextIndex]_vars

(***************************************************************************)
(* SpecWatch: one index_path(root, watch = true) over a tree of at most    *)
(* one file, and the notifications that follow.                            *)
(***************************************************************************)
WatchWalkResults == { <<>>, <<"a.rs">> }

NextWatch ==
    \/ \E walk_ok \in BOOLEAN, walked \in WatchWalkResults : IndexPath(TRUE, walk_ok, walked)
    \/ \E outcome \in IndexOutcomes : IndexOnceStep(outcome)
    \/ \E setup_ok \in BOOLEAN : FileWalkerWatch(setup_ok)
    \/ WatcherShutdown
    \/ \E kind \in NotifyKinds, path \in EventPaths : FsNotify(kind, path)
    \/ \E outcome \in IndexOutcomes : RecvEvent(outcome)
    \/ RecvClosed

SpecWatch == Init /\ [][NextWatch]_vars

(***************************************************************************)
(* The query engine (src/src/query/mod.rs).                                *)
(***************************************************************************)
\* Value::as_u64: a number that is a non-negative integer.
AsU64(opt) == {v.n : v \in {w \in opt : w.kind = "num" /\ w.n >= 0}}

\* format!("{:.3}", score), for the scores the model's vectors produce.
Format3(score) ==
    IF score = 4 THEN "1.000"
    ELSE IF score = 2 THEN "0.707"
    ELSE IF score = 1 THEN "0.500"
    ELSE IF score = 0 THEN "0.000"
    ELSE IF score = -1 THEN "-0.500"
    ELSE IF score = -2 THEN "-0.707"
    ELSE "-1.000"

(***************************************************************************)
(* build_context, lines 63-86: a result contributes a section only when    *)
(* its metadata holds a string content and a string file_path; the section *)
(* has a "Lines:" line when line_start is a u64, with "-line_end" when     *)
(* line_end is one too.  The context is the sections in rank order.        *)
(***************************************************************************)
SectionOf(i, r) ==
    LET content == AsStr(MetaGet(r.metadata, "content"))
        file_path == AsStr(MetaGet(r.metadata, "file_path"))
        line_start == AsU64(MetaGet(r.metadata, "line_start"))
        line_end == AsU64(MetaGet(r.metadata, "line_end"))
    IN  IF content = {} \/ file_path = {} THEN {}
        ELSE {[rank |-> i, score |-> Format3(r.score),
               file |-> CHOOSE f \in file_path : TRUE,
               lines |-> IF line_start = {} THEN <<>>
                         ELSE IF line_end = {} THEN <<CHOOSE n \in line_start : TRUE>>
                         ELSE <<CHOOSE n \in line_start : TRUE, CHOOSE n \in line_end : TRUE>>,
               content |-> CHOOSE c \in content : TRUE]}

RECURSIVE BuildContextFrom(_, _)
BuildContextFrom(results, i) ==
    IF i > Len(results) THEN <<>>
    ELSE LET sec == SectionOf(i, results[i])
         IN  (IF sec = {} THEN <<>> ELSE <<CHOOSE x \in sec : TRUE>>)
             \o BuildContextFrom(results, i + 1)

BuildContext(results) == BuildContextFrom(results, 1)

(***************************************************************************)
(* extract_references, lines 88-106: one CodeReference per result that has *)
(* a string file_path, u64 line_start and line_end and a string content.   *)
(***************************************************************************)
ReferenceOfAnyContent(r) ==
    LET file_path == AsStr(MetaGet(r.metadata, "file_path"))
        line_start == AsU64(MetaGet(r.metadata, "line_start"))
        line_end == AsU64(MetaGet(r.metadata, "line_end"))
        snippet == AsStr(MetaGet(r.metadata, "content"))
    IN  IF file_path = {} \/ line_start = {} \/ line_end = {} THEN {}
        ELSE {[file_path |-> CHOOSE f \in file_path : TRUE,
               line_start |-> CHOOSE n \in line_start : TRUE,
               line_end |-> CHOOSE n \in line_end : TRUE,
               snippet |-> IF snippet = {} THEN "" ELSE CHOOSE c \in snippet : TRUE,
               relevance_score |-> r.score]}

ReferenceOf(r) ==
    LET file_path == AsStr(MetaGet(r.metadata, "file_path"))
        line_start == AsU64(MetaGet(r.metadata, "line_start"))
        line_end == AsU64(MetaGet(r.metadata, "line_end"))
        snippet == AsStr(MetaGet(r.metadata, "content"))
    IN  IF file_path = {} \/ line_start = {} \/ line_end = {} \/ snippet = {} THEN {}
        ELSE {[file_path |-> CHOOSE f \in file_path : TRUE,
               line_start |-> CHOOSE n \in line_start : TRUE,
               line_end |-> CHOOSE n \in line_end : TRUE,
               snippet |-> CHOOSE c \in snippet : TRUE,
               relevance_score |-> r.score]}

RECURSIVE ExtractReferences(_)
ExtractReferences(results) ==
    IF results = <<>> THEN <<>>
    ELSE LET ref == ReferenceOf(Head(results))
         IN  (IF ref = {} THEN <<>> ELSE <<CHOOSE x \in ref : TRUE>>)
             \o ExtractReferences(Tail(results))

(***************************************************************************)
(* LlmClient::completion, lines 146-188, and stream_completion, lines      *)
(* 190-256, by how the exchange goes: "ok"; "no_content" (the body has no  *)
(* choices[0].message.content, or the stream no delta); "send_err",        *)
(* "status_err", "read_err" (Network); "io_err" (stdout, streaming only).  *)
(***************************************************************************)
LlmOutcomes == {"ok", "no_content", "send_err", "status_err", "read_err", "io_err"}

CompletionHidesStatus(outcome) ==
    IF outcome \in {"send_err", "read_err"}
    THEN [ok |-> FALSE, kind |-> "Network"]
    ELSE IF outcome \in {"no_content", "status_err"} THEN [ok |-> TRUE, answer |-> "No response"]
    ELSE [ok |-> TRUE, answer |-> "The answer."]

Completion(outcome) ==
    IF outcome \in {"send_err", "status_err", "read_err"}
    THEN [ok |-> FALSE, kind |-> "Network"]
    ELSE IF outcome = "no_content" THEN [ok |-> TRUE, answer |-> "No response"]
    ELSE [ok |-> TRUE, answer |-> "The answer."]

StreamCompletion(outcome) ==
    IF outcome \in {"send_err", "status_err", "read_err"}
    THEN [ok |-> FALSE, kind |-> "Network"]
    ELSE IF outcome = "io_err" THEN [ok |-> FALSE, kind |-> "Io"]
    ELSE IF outcome = "no_content" THEN [ok |-> TRUE, answer |-> ""]
    ELSE [ok |-> TRUE, answer |-> "The answer."]

CannedAnswer == "No relevant code found for your query."

\* query, line 41: search_results.is_empty().
ShortCircuitsNever(search_results) == FALSE

ShortCircuits(search_results) == search_results = <<>>

(***************************************************************************)
(* query, lines 27-61: embed the question, search, answer at once when     *)
(* nothing was found, else build the context and the references and ask    *)
(* the completion capability, streaming or not.  embed_ok and search_ok    *)
(* say whether the embedding provider and the backend's search return Ok.  *)
(***************************************************************************)
QueryAfterSearch(search_results, stream_output, llm) ==
    IF ShortCircuits(search_results)
    THEN [response |-> [status |-> "Ok", answer |-> CannedAnswer, references |-> <<>>],
          calls |-> <<>>]
    ELSE LET context == BuildContext(search_results)
             references == ExtractReferences(search_results)
             got == IF stream_output THEN StreamCompletion(llm) ELSE Completion(llm)
             call == [cap |-> IF stream_output THEN "stream_completion" ELSE "completion",
                      context |-> context, outcome |-> llm]
         IN  [response |-> IF got.ok
                           THEN [status |-> "Ok", answer |-> got.answer,
                                 references |-> references]
                           ELSE [status |-> "Err", kind |-> got.kind],
              calls |-> <<call>>]

Query(embed_ok, query_embedding, top_k, stream_output, search_ok, llm) ==
    IF ~embed_ok
    THEN /\ response' = [status |-> "Err", kind |-> "Embedding"]
         /\ calls' = <<[cap |-> "embed", ok |-> FALSE]>>
         /\ UNCHANGED <<storeVars, indexVars, lockVars, embedder, parseVars, walkVars, utilVars>>
    ELSE IF ~search_ok
    THEN /\ response' = [status |-> "Err", kind |-> "VectorStore"]
         /\ calls' = <<[cap |-> "embed", ok |-> TRUE],
                       [cap |-> "search", ok |-> FALSE, top_k |-> top_k]>>
         /\ UNCHANGED <<storeVars, indexVars, lockVars, embedder, parseVars, walkVars, utilVars>>
    ELSE LET search_results == SearchStore(documents, query_embedding, top_k)
             rest == QueryAfterSearch(search_results, stream_output, llm)
         IN  /\ response' = rest.response
             /\ calls' = <<[cap |-> "embed", ok |-> TRUE],
                           [cap |-> "search", ok |-> TRUE, top_k |-> top_k,
                            results |-> search_results]>> \o rest.calls
             /\ UNCHANGED <<storeVars, indexVars, lockVars, embedder, parseVars, walkVars, utilVars>>

(***************************************************************************)
(* SpecQuery: queries against a store constructed on a snapshot that holds *)
(* documents whose metadata is complete or lacks a field.  The inputs of a *)
(* query: what the capabilities answer, the embedding of the question,     *)
(* top_k and stream_output.                                                *)
(***************************************************************************)
QueryDocs ==
    { CreateDocument(Chunks("a.rs")[1], <<1, 0>>, 1),
      CreateDocument(Chunks("b\\xFF.rs")[1], <<0, 1>>, 2),
      Doc(2, <<1, 1>>, [file_path |-> JStr("b\\uFFFD.rs"), content |-> JStr("fn b() {}"),
                        line_start |-> JNum(1)]),
      Doc(3, <<0, 1>>, [file_path |-> JStr("a.rs"), line_start |-> JNum(5),
                        line_end |-> JNum(5)]),
      Doc(3, <<1, 0>>, [file_path |-> JNum(7), content |-> JStr("struct A;"),
                        line_start |-> JNum(-1), line_end |-> JNum(5)]) }

QueryStores ==
    {s \in SeqsUpTo(QueryDocs, 3) : \A i, j \in DOMAIN s : i # j => s[i].id # s[j].id}

QueryInput(embed_ok, q, k, stream_output, search_ok, llm) ==
    [embed_ok |-> embed_ok, q |-> q, k |-> k, stream_output |-> stream_output,
     search_ok |-> search_ok, llm |-> llm]

QueryInputs ==
    {QueryInput(FALSE, <<1, 0>>, 1, FALSE, TRUE, "ok")}
    \cup {QueryInput(TRUE, <<1, 0>>, k, FALSE, FALSE, "ok") : k \in 0..MaxTopK}
    \cup {QueryInput(TRUE, q, k, FALSE, TRUE, llm) :
            q \in QueryVectors, k \in 0..MaxTopK, llm \in LlmOutcomes \ {"io_err"}}
    \cup {QueryInput(TRUE, q, k, TRUE, TRUE, llm) :
            q \in QueryVectors, k \in 0..MaxTopK, llm \in LlmOutcomes}

InitQuery ==
    /\ documents \in QueryStores
    /\ snapshot = IF documents = <<>> THEN NoFile ELSE Written(documents)
    /\ last = [op |-> "new"]
    /\ purged = {}
    /\ IndexIdle
    /\ QueryIdle
    /\ LockIdle
    /\ EmbedderIdle /\ ParseIdle /\ WalkIdle
    /\ StreamIdle /\ TruncIdle

\* query keeps nothing from one call to the next: one call on each store
\* reaches every state that a sequence of calls reaches.
NextQuery ==
    \E in \in QueryInputs :
       /\ calls = <<>>
       /\ Query(in.embed_ok, in.q, in.k, in.stream_output, in.search_ok, in.llm)

SpecQuery == InitQuery /\ [][NextQuery]_vars

(***************************************************************************)
(* The store under concurrent callers (local_store.rs, lines 57-127): each *)
(* task is inside at most one call, and a call is a sequence of steps      *)
(* around tokio's RwLock.  write().await is granted when nobody holds the  *)
(* lock, read().await when no writer holds it.                             *)
(***************************************************************************)
CanWriteBesideReaders(l) == l.writer = "none"

CanWrite(l) == l.writer = "none" /\ l.readers = {}

CanReadAlways(l) == TRUE

CanRead(l) == l.writer = "none"

\* The call enters: its arguments are bound, nothing is locked yet.
CallUpsert(t, batch) ==
    /\ tasks[t].pc = "idle"
    /\ tasks' = [tasks EXCEPT ![t] = [op |-> "upsert_documents", pc |-> "lock",
                                      batch |-> batch, i |-> 1]]
    /\ UNCHANGED <<storeVars, indexVars, queryVars, lock, embedder, parseVars,
                   walkVars, utilVars>>

CallDelete(t, file_path) ==
    /\ tasks[t].pc = "idle"
    /\ tasks' = [tasks EXCEPT ![t] = [op |-> "delete_by_file", pc |-> "lock",
                                      path_str |-> PathDisplay(file_path), i |-> 1]]
    /\ UNCHANGED <<storeVars, indexVars, queryVars, lock, embedder, parseVars,
                   walkVars, utilVars>>

CallSearch(t, query_vector, top_k) ==
    /\ tasks[t].pc = "idle"
    /\ tasks' = [tasks EXCEPT ![t] = [op |-> "search", pc |-> "lock",
                                      query_vector |-> query_vector, top_k |-> top_k]]
    /\ UNCHANGED <<storeVars, indexVars, queryVars, lock, embedder, parseVars,
                   walkVars, utilVars>>

\* upsert_documents line 72, delete_by_file line 114: self.documents.write().await.
\* before is the table as the guard found it.
WriteLock(t) ==
    /\ tasks[t].pc = "lock"
    /\ tasks[t].op \in {"upsert_documents", "delete_by_file"}
    /\ CanWrite(lock)
    /\ lock' = [lock EXCEPT !.writer = t]
    /\ tasks' = [tasks EXCEPT ![t] = [@ EXCEPT !.pc = "mutate"] @@ [before |-> documents]]
    /\ UNCHANGED <<storeVars, indexVars, queryVars, embedder, parseVars,
                   walkVars, utilVars>>

\* upsert_documents, lines 74-84: one turn of the loop over the batch.
UpsertLoop(t) ==
    /\ tasks[t].pc = "mutate"
    /\ tasks[t].op = "upsert_documents"
    /\ tasks[t].i <= Len(tasks[t].batch)
    /\ documents' = UpsertOne(documents, tasks[t].batch[tasks[t].i])
    /\ tasks' = [tasks EXCEPT ![t].i = @ + 1]
    /\ UNCHANGED <<snapshot, last, purged, indexVars, queryVars, lock, embedder, parseVars,
                   walkVars, utilVars>>

\* delete_by_file, lines 116-122: retain visits the documents in order and
\* drops the one it is at when the predicate is false.
RetainLoop(t) ==
    /\ tasks[t].pc = "mutate"
    /\ tasks[t].op = "delete_by_file"
    /\ tasks[t].i <= Len(documents)
    /\ IF KeepOnDelete(documents[tasks[t].i], tasks[t].path_str)
       THEN /\ tasks' = [tasks EXCEPT ![t].i = @ + 1]
            /\ UNCHANGED documents
       ELSE /\ documents' = SubSeq(documents, 1, tasks[t].i - 1)
                              \o SubSeq(documents, tasks[t].i + 1, Len(documents))
            /\ UNCHANGED tasks
    /\ UNCHANGED <<snapshot, last, purged, indexVars, queryVars, lock, embedder, parseVars,
                   walkVars, utilVars>>

MutationDone(t) ==
    IF tasks[t].op = "upsert_documents" THEN tasks[t].i > Len(tasks[t].batch)
    ELSE tasks[t].i > Len(documents)

\* drop(store), lines 86 and 124.
DropWrite(t) ==
    /\ tasks[t].pc = "mutate"
    /\ MutationDone(t)
    /\ lock' = [lock EXCEPT !.writer = "none"]
    /\ tasks' = [tasks EXCEPT ![t].pc = "save"]
    /\ UNCHANGED <<storeVars, indexVars, queryVars, embedder, parseVars,
                   walkVars, utilVars>>

\* save, lines 58-59: self.documents.read().await, and the table the guard
\* gives is serialized.
SaveLock(t) ==
    /\ tasks[t].pc = "save"
    /\ CanRead(lock)
    /\ lock' = [lock EXCEPT !.readers = @ \cup {t}]
    /\ tasks' = [tasks EXCEPT ![t] = [@ EXCEPT !.pc = "write"] @@ [json |-> Written(documents)]]
    /\ UNCHANGED <<storeVars, indexVars, queryVars, embedder, parseVars,
                   walkVars, utilVars>>

\* save, lines 60-61, and the return of the mutating call: the serialized
\* table is written, still under the read guard, which is dropped on return.
\* last is the call that returned last, and whether it returned Ok.
SaveWrite(t, save_ok) ==
    /\ tasks[t].pc = "write"
    /\ snapshot' = IF save_ok THEN tasks[t].json ELSE snapshot
    /\ last' = [op |-> "returned", ok |-> save_ok]
    /\ lock' = [lock EXCEPT !.readers = @ \ {t}]
    /\ tasks' = [tasks EXCEPT ![t] = NoCall]
    /\ UNCHANGED <<documents, purged, indexVars, queryVars, embedder, parseVars,
                   walkVars, utilVars>>

\* search, line 92: self.documents.read().await.
ReadLock(t) ==
    /\ tasks[t].pc = "lock"
    /\ tasks[t].op = "search"
    /\ CanRead(lock)
    /\ lock' = [lock EXCEPT !.readers = @ \cup {t}]
    /\ tasks' = [tasks EXCEPT ![t].pc = "scan"]
    /\ UNCHANGED <<storeVars, indexVars, queryVars, embedder, parseVars,
                   walkVars, utilVars>>

\* The table a writer in flight found, and the one it will leave.
TableBefore ==
    IF lock.writer = "none" THEN documents ELSE tasks[lock.writer].before

TableAfter ==
    IF lock.writer = "none" THEN documents
    ELSE IF tasks[lock.writer].op = "upsert_documents"
         THEN UpsertAll(TableBefore, tasks[lock.writer].batch)
         ELSE DeleteFromStore(TableBefore, tasks[lock.writer].path_str)

\* search, lines 93-110: the scores, the sort and the results, read from the
\* table under the guard.  seen, was and will_be record what the table was
\* at that moment, and what a mutation in flight started from and leads to.
Scan(t) ==
    /\ tasks[t].pc = "scan"
    /\ tasks' = [tasks EXCEPT ![t] =
                   [@ EXCEPT !.pc = "scanned"]
                   @@ [results |-> SearchStore(documents, tasks[t].query_vector,
                                               tasks[t].top_k),
                       seen |-> documents, was |-> TableBefore, will_be |-> TableAfter]]
    /\ UNCHANGED <<storeVars, indexVars, queryVars, lock, embedder, parseVars,
                   walkVars, utilVars>>

\* search returns: the read guard is dropped.
ReadUnlock(t) ==
    /\ tasks[t].pc = "scanned"
    /\ lock' = [lock EXCEPT !.readers = @ \ {t}]
    /\ tasks' = [tasks EXCEPT ![t] = NoCall]
    /\ UNCHANGED <<storeVars, indexVars, queryVars, embedder, parseVars,
                   walkVars, utilVars>>

(***************************************************************************)
(* SpecLock: three tasks calling the store at the same time.               *)
(***************************************************************************)
LockBatches ==
    { <<CreateDocument(Chunks("a.rs")[1], <<1, 0>>, 1),
        CreateDocument(Chunks("a.rs")[2], <<0, 1>>, 2)>>,
      <<CreateDocument(Chunks("b\\xFF.rs")[1], <<1, 1>>, 3)>> }

NextLock ==
    \/ \E t \in Tasks, batch \in LockBatches : CallUpsert(t, batch)
    \/ \E t \in Tasks : CallDelete(t, "a.rs")
    \/ \E t \in Tasks : CallSearch(t, <<1, 0>>, MaxTopK)
    \/ \E t \in Tasks : WriteLock(t)
    \/ \E t \in Tasks : UpsertLoop(t)
    \/ \E t \in Tasks : RetainLoop(t)
    \/ \E t \in Tasks : DropWrite(t)
    \/ \E t \in Tasks : SaveLock(t)
    \/ \E t \in Tasks, save_ok \in BOOLEAN : SaveWrite(t, save_ok)
    \/ \E t \in Tasks : ReadLock(t)
    \/ \E t \in Tasks : Scan(t)
    \/ \E t \in Tasks : ReadUnlock(t)

SpecLock == Init /\ [][NextLock]_vars

(***************************************************************************)
(* SpecEmbed: index_path(root, watch = false) by an Indexer that           *)
(* handle_index made with either provider: the local one, or OpenAI's with *)
(* a model whose vectors have 1536 or 3072 components                      *)
(* (text-embedding-3-small, the default of the configuration, and          *)
(* text-embedding-3-large).                                                *)
(***************************************************************************)
OpenAIEmbedder(dim) == [provider |-> "openai", dim |-> dim]

Embedders == {LocalEmbedder, OpenAIEmbedder(1536), OpenAIEmbedder(3072)}

\* handle_index, line 87: store.initialize(&config.vector.collection_name, 384).
vector_size == 384

InitEmbed ==
    /\ StoreInit /\ IndexIdle /\ QueryIdle /\ LockIdle /\ ParseIdle /\ WalkIdle
    /\ StreamIdle /\ TruncIdle
    /\ embedder \in Embedders

SpecEmbed == InitEmbed /\ [][NextIndex]_vars

(***************************************************************************)
(* SpecParse: the chunker on one file: files of up to MaxLines lines with  *)
(* no parser for their language, and short files with a parser and up to   *)
(* MaxNodes captured nodes, at the start of a line or indented.            *)
(***************************************************************************)
NodesOf(n) ==
    {node \in [row : 1..n, col : {0, 4}, text_lines : 1..n] :
       node.row + node.text_lines - 1 <= n}

Sources ==
    {[lines |-> n, structural |-> FALSE, nodes |-> <<>>] : n \in 0..MaxLines}
    \cup UNION {{[lines |-> n, structural |-> TRUE, nodes |-> ns] :
                   ns \in SeqsUpTo(NodesOf(n), MaxNodes)} : n \in 1..MaxNodeLines}

InitParse ==
    /\ StoreInit /\ IndexIdle /\ QueryIdle /\ LockIdle /\ EmbedderIdle /\ WalkIdle
    /\ StreamIdle /\ TruncIdle
    /\ source \in Sources
    /\ parsed = NotParsed

NextParse == \E read_ok \in BOOLEAN : ParseFile(read_ok)

SpecParse == InitParse /\ [][NextParse]_vars

(***************************************************************************)
(* SpecWalk: walk on a tree holding any of six files: a plain source file, *)
(* one with a denylist word in its name, one in a denylisted directory, a  *)
(* shared object, a file the tree's .gitignore matches and a file of the   *)
(* .git directory; under a plain root and one whose name holds a word of   *)
(* the denylist.                                                           *)
(***************************************************************************)
TreeFile(rel, git_ignored) == [rel |-> rel, git_ignored |-> git_ignored]

TreeFiles ==
    { TreeFile(<<<<"s", "r", "c">>, <<"m", "a", "i", "n", ".", "r", "s">>>>, FALSE),
      TreeFile(<<<<"s", "r", "c">>, <<"b", "u", "i", "l", "d", "e", "r", ".", "r", "s">>>>, FALSE),
      TreeFile(<<<<"t", "a", "r", "g", "e", "t">>, <<"a", "p", "p", ".", "r", "s">>>>, FALSE),
      TreeFile(<<<<"l", "i", "b">>, <<"x", ".", "s", "o">>>>, FALSE),
      TreeFile(<<<<"d", "o", "c", "s">>, <<"a", ".", "m", "d">>>>, TRUE),
      TreeFile(<<<<".", "g", "i", "t">>, <<"c", "o", "n", "f", "i", "g">>>>, FALSE) }

Roots == { <<<<"p", "r", "o", "j">>>>, <<<<"h", "o", "m", "e">>, <<"r", "e", "b", "u", "i", "l", "d">>, <<"p", "r", "o", "j">>>> }

InitWalk ==
    /\ StoreInit /\ IndexIdle /\ QueryIdle /\ LockIdle /\ EmbedderIdle /\ ParseIdle
    /\ StreamIdle /\ TruncIdle
    /\ tree \in [root : Roots, files : SUBSET TreeFiles]
    /\ listing = NotWalked

NextWalk == \E walk_ok \in BOOLEAN : Walk(walk_ok)

SpecWalk == InitWalk /\ [][NextWalk]_vars

(***************************************************************************)
(* SpecTrunc: one call of truncate_string on a string of at most MaxChars  *)
(* characters of one or two bytes, in a build with or without overflow     *)
(* checks.                                                                 *)
(***************************************************************************)
Chars == {"a", "U+00E9"}

InitTrunc ==
    /\ StoreInit /\ IndexIdle /\ QueryIdle /\ LockIdle /\ EmbedderIdle /\ ParseIdle
    /\ WalkIdle /\ StreamIdle
    /\ subject \in [s : SeqsUpTo(Chars, MaxChars), max_len : 0..MaxTruncLen]
    /\ truncated = NotTruncated

NextTrunc == \E overflow_checks \in BOOLEAN : TruncateStringCall(overflow_checks)

SpecTrunc == InitTrunc /\ [][NextTrunc]_vars

(***************************************************************************)
(* SpecStream: one streaming completion whose body is a sequence of at     *)
(* most MaxStreamLines data lines, cut into network chunks inside lines    *)
(* and between them in every way.                                          *)
(***************************************************************************)
MaxStreamLines == 3

DataLines == {"Hel", "lo", "[DONE]"}

\* The chunks of lines[i..] when cur is the part of the current chunk already
\* there: splits[i] cuts line i in two, cuts[i] cuts between lines i and i+1.
RECURSIVE ChunksFrom(_, _, _, _, _)
ChunksFrom(lines, splits, cuts, i, cur) ==
    IF i > Len(lines) THEN (IF cur = <<>> THEN <<>> ELSE <<cur>>)
    ELSE LET done == IF splits[i] THEN <<Append(cur, Piece(lines[i], "head"))>> ELSE <<>>
             open == IF splits[i] THEN <<Piece(lines[i], "tail")>>
                     ELSE Append(cur, Piece(lines[i], "whole"))
         IN  IF i < Len(lines) /\ cuts[i]
             THEN done \o <<open>> \o ChunksFrom(lines, splits, cuts, i + 1, <<>>)
             ELSE done \o ChunksFrom(lines, splits, cuts, i + 1, open)

Streams ==
    UNION {{[lines |-> lines, chunks |-> ChunksFrom(lines, splits, cuts, 1, <<>>)] :
              splits \in [DOMAIN lines -> BOOLEAN],
              cuts \in [1..(Len(lines) - 1) -> BOOLEAN]} :
           lines \in SeqsUpTo(DataLines, MaxStreamLines) \ {<<>>}}

InitStream ==
    /\ StoreInit /\ IndexIdle /\ QueryIdle /\ LockIdle /\ EmbedderIdle /\ ParseIdle
    /\ WalkIdle /\ TruncIdle
    /\ stream \in Streams
    /\ answer = NoAnswer

NextStream == StreamCompletionBody

SpecStream == InitStream /\ [][NextStream]_vars

(***************************************************************************)
(* C1: in the embedded store no two held documents share an id, and after  *)
(* upsert_documents(batch) the document held under each id of the batch is *)
(* exactly the last batch entry with that id: its embedding and its        *)
(* metadata, with nothing of the document held under that id before.       *)
(***************************************************************************)
LastWithId(batch, id) ==
    LET at == {i \in DOMAIN batch : batch[i].id = id}
    IN  batch[CHOOSE i \in at : \A j \in at : j <= i]

HeldUnder(id) == {documents[i] : i \in {j \in DOMAIN documents : documents[j].id = id}}

C1_UpsertReplacesById ==
    /\ \A i, j \in DOMAIN documents : i # j => documents[i].id # documents[j].id
    /\ last.op = "upsert_documents" =>
         \A i \in DOMAIN last.batch :
            LET e == LastWithId(last.batch, last.batch[i].id)
            IN  HeldUnder(e.id) = {Doc(e.id, e.embedding, e.metadata)}

\* A batch with two different entries of one id, which was held before the call.
C1_Witness ==
    /\ last.op = "upsert_documents"
    /\ Len(last.batch) = 2
    /\ last.batch[1].id = last.batch[2].id
    /\ last.batch[1] # last.batch[2]
    /\ last.batch[1].id \in last.replaced
    /\ Len(documents) >= 2

C3_NoPurgedPathInResults ==
    last.op = "search" =>
      \A i \in DOMAIN last.results :
         AsStr(MetaGet(last.results[i].metadata, "file_path")) \cap purged = {}

\* A search that returns something after a delete_by_file that removed something.
C3_Witness ==
    /\ last.op = "search"
    /\ last.removed_before > 0
    /\ purged # {}
    /\ last.results # <<>>

DocsOfFile(path_str) ==
    Cardinality({i \in DOMAIN documents :
                   path_str \in AsStr(MetaGet(documents[i].metadata, "file_path"))})

LastStep == steps[Len(steps)]

C5_ReindexKeepsOneDocumentPerChunk ==
    (steps # <<>> /\ LastStep.op = "index_file" /\ LastStep.outcome = "ok")
      => DocsOfFile(PathDisplay(LastStep.path)) = Len(Chunks(LastStep.path))

(***************************************************************************)
(* C6: in a pass without watch, each file whose index_file fails adds      *)
(* exactly one to failed_files, the files discovered after it are still    *)
(* processed, in order, and index_path returns Ok whenever walk() did not  *)
(* fail.                                                                   *)
(***************************************************************************)
PassSteps == SelectSeq(steps, LAMBDA st : st.src = "pass")
WalkFailed == steps # <<>> /\ steps[1].src = "walk" /\ steps[1].outcome = "err"

C6_PerFileFailureIsCountedNotPropagated ==
    /\ stats.failed_files =
         Cardinality({i \in DOMAIN PassSteps : PassSteps[i].outcome # "ok"})
    /\ [i \in DOMAIN PassSteps |-> PassSteps[i].path] \o files = found
    /\ pc = "done" =>
         IF WalkFailed THEN result = "Err"
         ELSE result = "Ok" /\ Len(PassSteps) = Len(found)

\* A finished pass in which a file failed and a later file was indexed.
C6_Witness ==
    /\ pc = "done"
    /\ result = "Ok"
    /\ stats.failed_files >= 1
    /\ \E i, j \in DOMAIN PassSteps :
         i < j /\ PassSteps[i].outcome # "ok" /\ PassSteps[j].outcome = "ok"

(***************************************************************************)
(* C7: in watch mode no event is handled before the initial pass is over;  *)
(* the events sent on the channel are handled one by one in the order      *)
(* sent, none skipped, merged or reordered: Created/Modified(p) by one     *)
(* index_file(p), Deleted(p) by one delete_by_file(p); and the store is    *)
(* left as the latest handled event leaves it.                             *)
(***************************************************************************)
Sent == SelectSeq(fs_events, LAMBDA n : n.delivered)
EventSteps == SelectSeq(steps, LAMBDA st : st.src = "event")
ExpectedOp(kind) == IF kind = "Remove" THEN "delete_by_file" ELSE "index_file"
ExpectedEvent(kind) ==
    IF kind = "Create" THEN "Created" ELSE IF kind = "Modify" THEN "Modified" ELSE "Deleted"

C7_EventsHandledInArrivalOrder ==
    /\ Len(EventSteps) <= Len(Sent)
    /\ \A i \in DOMAIN EventSteps :
         /\ EventSteps[i].path = Sent[i].path
         /\ EventSteps[i].op = ExpectedOp(Sent[i].kind)
    /\ chan = [i \in 1..(Len(Sent) - Len(EventSteps)) |->
                 [kind |-> ExpectedEvent(Sent[Len(EventSteps) + i].kind),
                  path |-> Sent[Len(EventSteps) + i].path]]
    /\ \A i, j \in DOMAIN steps : (i < j /\ steps[i].src = "event") => steps[j].src # "pass"
    /\ EventSteps # <<>> => (files = <<>> /\ Len(PassSteps) = Len(found))
    /\ (steps # <<>> /\ LastStep.src = "event") =>
         IF LastStep.op = "delete_by_file"
         THEN DocsOfFile(PathDisplay(LastStep.path)) = 0
         ELSE LastStep.outcome \in {"ok", "store_err"} =>
                LET k == Len(Chunks(LastStep.path))
                    n == Len(documents)
                IN  /\ n >= k
                    /\ \A i \in 1..k :
                         /\ documents[n - k + i].metadata.file_path
                              = JStr(PathDisplay(LastStep.path))
                         /\ documents[n - k + i].metadata.content
                              = JStr(Chunks(LastStep.path)[i].content)

\* Two events on one path handled back to back, a Modified and then a Deleted.
C7_Witness ==
    /\ Len(EventSteps) >= 2
    /\ EventSteps[1].path = EventSteps[2].path
    /\ EventSteps[1].op = "index_file" /\ EventSteps[1].outcome = "ok"
    /\ EventSteps[2].op = "delete_by_file"
    /\ Len(PassSteps) = 1
    /\ LastStep.src = "event"

(***************************************************************************)
(* C8: the watch opened by FileWalker::watch stays registered while the    *)
(* Indexer consumes the receiver: every create/modify/remove notification  *)
(* under root after watch() returned is sent on the channel, and the       *)
(* channel's sending side is not closed while the Indexer waits on it.     *)
(***************************************************************************)
C8_WatchStaysRegistered ==
    /\ \A i \in DOMAIN fs_events : fs_events[i].delivered
    /\ pc = "loop" => watcher # "closed"

(***************************************************************************)
(* C9: index_path(root, watch = true) returns Ok only after the channel    *)
(* has closed and been drained, and Err only when walk() or the watch      *)
(* setup failed; a failure while handling an event leaves the loop running *)
(* and never becomes the result.                                           *)
(***************************************************************************)
C9_WatchLoopEndsOnlyOnClose ==
    /\ pc = "done" <=> result \in {"Ok", "Err"}
    /\ result = "Ok" => (chan = <<>> /\ watcher = "closed" /\ LastStep.src = "closed")
    /\ result = "Err" =>
         /\ LastStep.src \in {"walk", "watch"}
         /\ LastStep.outcome = "err"
         /\ EventSteps = <<>>
    /\ (steps # <<>> /\ LastStep.src = "event") => (pc = "loop" /\ result = "none")

\* A run that returned Ok although an event failed, a later event having been handled.
C9_Witness ==
    /\ result = "Ok"
    /\ Len(EventSteps) >= 2
    /\ EventSteps[1].outcome # "ok"
    /\ EventSteps[2].outcome = "ok"

(***************************************************************************)
(* C10: when the store's search returns no result, query returns Ok with   *)
(* the fixed answer "No relevant code found for your query." and no        *)
(* reference, and the completion capability is not called, streaming or    *)
(* not.                                                                    *)
(***************************************************************************)
SearchCameBackEmpty ==
    \E i \in DOMAIN calls :
       calls[i].cap = "search" /\ calls[i].ok /\ calls[i].results = <<>>

C10_EmptySearchGivesCannedAnswer ==
    SearchCameBackEmpty =>
      /\ response = [status |-> "Ok",
                     answer |-> "No relevant code found for your query.",
                     references |-> <<>>]
      /\ \A i \in DOMAIN calls : calls[i].cap \notin {"completion", "stream_completion"}

\* A query with top_k > 0 against the empty store.
C10_Witness ==
    /\ SearchCameBackEmpty
    /\ documents = <<>>
    /\ \E i \in DOMAIN calls : calls[i].cap = "search" /\ calls[i].top_k > 0
    /\ response.status = "Ok"

(***************************************************************************)
(* C11: when a query gets as far as a successful completion, its reference *)
(* list holds, in rank order, exactly one CodeReference for every search   *)
(* result whose metadata has a string file_path, unsigned line_start and   *)
(* line_end and a string content, each with the four values and the score  *)
(* of its result; a result missing any of them gives no reference and the  *)
(* query still returns Ok.                                                 *)
(***************************************************************************)
HasString(m, k) == k \in DOMAIN m /\ m[k].kind = "str"

HasUnsigned(m, k) == k \in DOMAIN m /\ m[k].kind = "num" /\ m[k].n >= 0

CompleteMetadata(m) ==
    /\ HasString(m, "file_path") /\ HasString(m, "content")
    /\ HasUnsigned(m, "line_start") /\ HasUnsigned(m, "line_end")

SearchResultsOfQuery == calls[2].results

CompletionAnswered ==
    /\ Len(calls) = 3
    /\ calls[3].outcome \in {"ok", "no_content"}

C11_ReferencesAreTheCompleteResults ==
    CompletionAnswered =>
      LET results == SearchResultsOfQuery
          complete == {i \in DOMAIN results : CompleteMetadata(results[i].metadata)}
          NthComplete(k) ==
              CHOOSE i \in complete : Cardinality({j \in complete : j <= i}) = k
      IN  /\ response.status = "Ok"
          /\ Len(response.references) = Cardinality(complete)
          /\ \A k \in DOMAIN response.references :
                LET r == results[NthComplete(k)]
                IN  response.references[k] =
                      [file_path |-> r.metadata["file_path"].s,
                       line_start |-> r.metadata["line_start"].n,
                       line_end |-> r.metadata["line_end"].n,
                       snippet |-> r.metadata["content"].s,
                       relevance_score |-> r.score]

\* Three results of which the first and the last are complete and the
\* middle one lacks a field.
C11_Witness ==
    /\ CompletionAnswered
    /\ Len(SearchResultsOfQuery) = 3
    /\ CompleteMetadata(SearchResultsOfQuery[1].metadata)
    /\ ~CompleteMetadata(SearchResultsOfQuery[2].metadata)
    /\ CompleteMetadata(SearchResultsOfQuery[3].metadata)
    /\ response.status = "Ok"
    /\ Len(response.references) = 2

(***************************************************************************)
(* C12: the context document handed to the completion capability has one   *)
(* section for every search result, also for the results that give no      *)
(* reference because a field is missing.                                   *)
(***************************************************************************)
C12_EveryResultHasAContextSection ==
    Len(calls) = 3 =>
      /\ Len(calls[3].context) = Len(SearchResultsOfQuery)
      /\ \A i \in DOMAIN calls[3].context : calls[3].context[i].rank = i

(***************************************************************************)
(* C13: a query calls embed, then search, then the completion capability,  *)
(* each at most once; a failing call is the last call of the query, and    *)
(* the query then returns an error of the kind of the failing step:        *)
(* Embedding for embed, VectorStore for search, Network for a completion   *)
(* whose request, status or body fails.                                    *)
(***************************************************************************)
CapOrder == <<{"embed"}, {"search"}, {"completion", "stream_completion"}>>

NetworkFailures == {"send_err", "status_err", "read_err"}

CallFailed(c) ==
    IF c.cap \in {"embed", "search"} THEN ~c.ok
    ELSE c.outcome \in NetworkFailures \cup {"io_err"}

KindOfFailure(c) ==
    IF c.cap = "embed" THEN {"Embedding"}
    ELSE IF c.cap = "search" THEN {"VectorStore"}
    ELSE IF c.outcome \in NetworkFailures THEN {"Network"}
    ELSE {"Io"}

C13_QueryStepsInOrderFirstErrorWins ==
    /\ Len(calls) <= 3
    /\ \A i \in DOMAIN calls : calls[i].cap \in CapOrder[i]
    /\ \A i \in DOMAIN calls :
          CallFailed(calls[i]) =>
            /\ i = Len(calls)
            /\ response.status = "Err"
            /\ response.kind \in KindOfFailure(calls[i])
    /\ (response.status = "Err") => (calls # <<>> /\ CallFailed(calls[Len(calls)]))

\* A completion answered with a non-success status after embed and search
\* succeeded and found something.
C13_Witness ==
    /\ Len(calls) = 3
    /\ calls[3].cap = "completion"
    /\ calls[3].outcome = "status_err"
    /\ response = [status |-> "Err", kind |-> "Network"]

(***************************************************************************)
(* C14: a search never runs while a writer holds the table, so what it     *)
(* reads is the table as one whole upsert_documents or delete_by_file      *)
(* found it or as that call leaves it, never a table with part of a batch  *)
(* inserted or part of a file's documents removed; several searches can    *)
(* hold the table together.                                                *)
(***************************************************************************)
C14_SearchIsolatedFromMutation ==
    /\ lock.writer # "none" => lock.readers = {}
    /\ \A t \in Tasks :
         tasks[t].pc = "scanned" => tasks[t].seen \in {tasks[t].was, tasks[t].will_be}

\* Two searches hold the table together, one has read it, while an
\* upsert_documents of a batch of two waits for the lock.
C14_Witness ==
    \E t, u, w \in Tasks :
       /\ t # u
       /\ {t, u} \subseteq lock.readers
       /\ tasks[t].op = "search" /\ tasks[t].pc = "scanned" /\ tasks[t].results # <<>>
       /\ tasks[u].op = "search"
       /\ tasks[w].op = "upsert_documents" /\ tasks[w].pc = "lock"
       /\ Len(tasks[w].batch) = 2

(***************************************************************************)
(* C15: after upsert_documents or delete_by_file returned Ok, with no      *)
(* other call running, a store constructed on the snapshot file holds the  *)
(* same documents in the same order as the store that wrote it, and every  *)
(* search gives the same results on both.                                  *)
(***************************************************************************)
MutationReturnedOk == last.op \in {"upsert_documents", "delete_by_file"} /\ last.ok

C16_SelfSearchRanksFirst ==
    (last.op = "search" /\ last.top_k >= 1) =>
      \A d \in last.upserted :
         d.embedding = last.query_vector =>
           /\ last.results # <<>>
           /\ last.results[1].metadata = d.metadata
           /\ \A i \in DOMAIN documents :
                 cosine_similarity(last.query_vector, documents[i].embedding)
                   <= last.results[1].score

(***************************************************************************)
(* C17: for a file of n >= 1 lines fallback_parse returns the windows that *)
(* start at lines 1, 41, 81, ... up to n; a window has 50 lines unless the *)
(* end of the file cuts it; every line is in a window; two consecutive     *)
(* windows share 10 lines; the last window ends at line n.  A file of no   *)
(* line gives no window.                                                   *)
(***************************************************************************)
FallbackRan == parsed.done /\ parsed.ok /\ ~source.structural

C17_FallbackWindows ==
    FallbackRan =>
      LET n == source.lines
          w == parsed.chunks
          size(k) == w[k].line_end - w[k].line_start + 1
      IN  /\ n = 0 => w = <<>>
          /\ n >= 1 =>
               /\ w # <<>>
               /\ \A k \in DOMAIN w : w[k].line_start = 40 * (k - 1) + 1 /\ w[k].line_start <= n
               /\ 40 * Len(w) + 1 > n
               /\ \A k \in DOMAIN w : size(k) = 50 \/ (size(k) < 50 /\ w[k].line_end = n)
               /\ \A line \in 1..n :
                     \E k \in DOMAIN w : w[k].line_start <= line /\ line <= w[k].line_end
               /\ \A k \in 1..(Len(w) - 1) : w[k].line_end - w[k + 1].line_start + 1 = 10
               /\ w[Len(w)].line_end = n

(***************************************************************************)
(* C18: every chunk the chunker returns, from captured nodes or from the   *)
(* fallback, has 1 <= line_start <= line_end <= the file's number of       *)
(* lines.                                                                  *)
(***************************************************************************)
C18_ChunkLinesWithinFile ==
    (parsed.done /\ parsed.ok) =>
      \A k \in DOMAIN parsed.chunks :
         /\ 1 <= parsed.chunks[k].line_start
         /\ parsed.chunks[k].line_start <= parsed.chunks[k].line_end
         /\ parsed.chunks[k].line_end <= source.lines

(***************************************************************************)
(* C19: walk returns exactly the files beneath the root that the tree's    *)
(* ignore rules do not match, that have no denylisted directory among      *)
(* their directories beneath the root, and whose extension is none of exe, *)
(* dll, so, dylib, o, a.                                                   *)
(***************************************************************************)
InDenylistedDirectory(rel) ==
    \E i \in 1..(Len(rel) - 1) : \E j \in DOMAIN ignore_patterns : rel[i] = ignore_patterns[j]

C19_WalkReturnsExactlyTheWantedFiles ==
    (listing.done /\ listing.ok) =>
      listing.files =
        {tree.root \o f.rel :
           f \in {g \in tree.files :
                    /\ ~g.git_ignored
                    /\ ~InDenylistedDirectory(g.rel)
                    /\ Extension(g.rel) \cap binary_extensions = {}}}

(***************************************************************************)
(* C20: every document of a batch the Indexer hands to upsert_documents    *)
(* has an embedding of as many components as the vector size the store is  *)
(* initialized with, 384, whichever embedding provider is configured.      *)
(***************************************************************************)
C20_UpsertedEmbeddingsHaveVectorSize ==
    last.op = "upsert_documents" =>
      \A i \in DOMAIN last.batch : Len(last.batch[i].embedding) = vector_size

(***************************************************************************)
(* C21: the statistics start at zero at every index_path, and after a pass *)
(* without watch total_files is the number of files the pass discovered,   *)
(* whether a file was indexed, skipped for having no chunk, or failed at   *)
(* any step, reading and parsing included.                                 *)
(***************************************************************************)
C21_TotalFilesCountsEveryDiscoveredFile ==
    /\ (steps # <<>> /\ LastStep.src = "walk") => stats = NoStats
    /\ (pc = "done" /\ result = "Ok" /\ ~watch) => stats.total_files = Len(found)

(***************************************************************************)
(* C22: search treats top_k = 0 as invalid input: a search with top_k = 0  *)
(* returns an error, not a result list, and a query that reaches it ends   *)
(* with that error.                                                        *)
(***************************************************************************)
C22_TopKZeroIsRejected ==
    \A i \in DOMAIN calls :
       (calls[i].cap = "search" /\ calls[i].top_k = 0) =>
          /\ ~calls[i].ok
          /\ response.status = "Err"

(***************************************************************************)
(* C23: every failure of an index step is counted, the step run for a      *)
(* Created or Modified event included: failed_files is the number of       *)
(* index_file calls of the invocation that returned Err.                   *)
(***************************************************************************)
C23_FailedFilesCountsEveryFailedIndexStep ==
    stats.failed_files =
      Cardinality({i \in DOMAIN steps : steps[i].op = "index_file" /\ steps[i].err})

(***************************************************************************)
(* C24: truncate_string(s, max_len) returns s when s has at most max_len   *)
(* bytes, and else the first max_len - 3 bytes of s followed by "...",     *)
(* max_len bytes in all; for every s and max_len the call returns, and     *)
(* what it returns is never longer than max_len.                           *)
(***************************************************************************)
C24_TruncateStringCompletesWithinMaxLen ==
    truncated.done =>
      /\ ~truncated.panic
      /\ StrLen(truncated.out) <= subject.max_len
      /\ IF StrLen(subject.s) <= subject.max_len
         THEN truncated.out = subject.s
         ELSE /\ StrLen(truncated.out) = subject.max_len
              /\ \E n \in 0..Len(subject.s) :
                   truncated.out = SubSeq(subject.s, 1, n) \o <<".", ".", ".">>

(***************************************************************************)
(* C27: the answer of stream_completion is the concatenation, in arrival   *)
(* order, of the content of every data line the stream sends before        *)
(* "[DONE]", however the bytes are cut into network chunks, and nothing    *)
(* that arrives after "[DONE]" is appended.                                *)
(***************************************************************************)
RECURSIVE BeforeDone(_)
BeforeDone(lines) ==
    IF lines = <<>> THEN <<>>
    ELSE IF Head(lines) = "[DONE]" THEN <<>>
    ELSE <<Head(lines)>> \o BeforeDone(Tail(lines))

C27_StreamedAnswerIsTheFragmentsBeforeDone ==
    answer.done => answer.full_response = BeforeDone(stream.lines)

(***************************************************************************)
(* C25: index_file calls neither embed_batch nor upsert_documents for a    *)
(* file of zero chunks; for a file of k >= 1 chunks it calls embed_batch   *)
(* once with the k chunk contents in order and, when that returns Ok,      *)
(* upsert_documents once with k documents, the i-th made of chunk i and    *)
(* embedding i, and then adds k to total_chunks.                           *)
(***************************************************************************)
DocumentOfChunk(doc, chunk, embedding) ==
    /\ doc.embedding = embedding
    /\ doc.metadata = [file_path |-> JStr(chunk.file_path),
                       content |-> JStr(chunk.content),
                       line_start |-> JNum(chunk.line_start),
                       line_end |-> JNum(chunk.line_end),
                       chunk_type |-> JStr(chunk.chunk_type),
                       language |-> JStr(chunk.language)]

NoMutationInProgress ==
    \A t \in Tasks : tasks[t].op \notin {"upsert_documents", "delete_by_file"}

C26_SnapshotHoldsEveryCompletedMutation ==
    (NoMutationInProgress /\ last.op # "new" /\ last.ok) => Load(snapshot) = documents

\* Both batches have been upserted, the calls have returned Ok, and the
\* snapshot holds the three documents.
C26_Witness ==
    /\ NoMutationInProgress
    /\ last.op = "returned" /\ last.ok
    /\ Len(documents) = 3
    /\ snapshot.exists /\ Len(snapshot.records) = 3
    /\ Load(snapshot) = documents

(***************************************************************************)
(* C28: delete_by_file(p) leaves every document whose file_path is another *)
(* string, is absent or is not a string as it was: same id, embedding and  *)
(* metadata, same relative order; upsert_documents leaves every document   *)
(* whose id is not in the batch as it was, in the same relative order.     *)
(***************************************************************************)
C28_MutationsLeaveOtherDocumentsAlone ==
    [][/\ last'.op = "delete_by_file" =>
            LET NotOfFile(d) ==
                    AsStr(MetaGet(d.metadata, "file_path")) # {PathDisplay(last'.path)}
            IN  SelectSeq(documents', NotOfFile) = SelectSeq(documents, NotOfFile)
       /\ last'.op = "upsert_documents" =>
            LET NotInBatch(d) == \A i \in DOMAIN last'.batch : last'.batch[i].id # d.id
            IN  SelectSeq(documents', NotInBatch) = SelectSeq(documents, NotInBatch)
      ]_vars

\* A delete_by_file that removed a document and left one without a string
\* file_path and one of another file.
C28_Witness ==
    /\ last.op = "delete_by_file"
    /\ last.removed >= 1
    /\ \E i, j \in DOMAIN documents :
         /\ AsStr(MetaGet(documents[i].metadata, "file_path")) = {}
         /\ AsStr(MetaGet(documents[j].metadata, "file_path")) \notin {{}, {PathDisplay(last.path)}}

(***************************************************************************)
(* C29: when the save of the snapshot fails, upsert_documents returns Err  *)
(* but the table keeps the mutation: the documents of the failed upsert    *)
(* are held and found by a search although the snapshot does not have      *)
(* them, and the indexing pass counts the file as failed and removes none  *)
(* of them.                                                                *)
(***************************************************************************)
Found(doc, results) ==
    \E k \in DOMAIN results : results[k].metadata = doc.metadata

IndexedSteps ==
    SelectSeq(PassSteps, LAMBDA st : st.outcome = "ok" /\ Chunks(st.path) # <<>>)

ZeroChunkSteps ==
    SelectSeq(PassSteps, LAMBDA st : st.outcome = "ok" /\ Chunks(st.path) = <<>>)

RECURSIVE ChunkCount(_)
ChunkCount(index_steps) ==
    IF index_steps = <<>> THEN 0
    ELSE Len(Chunks(Head(index_steps).path)) + ChunkCount(Tail(index_steps))

C30_EveryDiscoveredFileAccountedOnce ==
    /\ stats.indexed_files <= stats.total_files
    /\ stats.indexed_files = Len(IndexedSteps)
    /\ stats.total_chunks = ChunkCount(IndexedSteps)
    /\ (pc = "done" /\ result = "Ok") =>
          stats.indexed_files + stats.failed_files + Len(ZeroChunkSteps) = Len(found)

\* A finished pass over three files: one indexed, one failed, one of zero
\* chunks.
C30_Witness ==
    /\ pc = "done" /\ result = "Ok"
    /\ Len(found) = 3
    /\ stats.indexed_files = 1
    /\ stats.failed_files = 1
    /\ Len(ZeroChunkSteps) = 1
    /\ stats.total_chunks = 2

====
